---- MODULE Spec2Model ----
(***************************************************************************)
(* GCDTalker (src/gcd_talker/gcd.py): the Grand Comics Database talker.    *)
(* The talker object's settings and flags, the SQLite file it queries, the *)
(* ComicCacher entries it reads and writes and the covers site it scrapes  *)
(* are the state; every public method is one action that runs the whole    *)
(* method, the private methods it calls included.                          *)
(*                                                                         *)
(* Identifiers are the decimal strings the public methods receive;        *)
(* int(..) and str(..) of a numeral are inverse to each other, so the    *)
(* same token stands for both forms.  json.dumps/json.loads of the cached *)
(* dictionaries (strings, integers, booleans, lists) gives back an equal  *)
(* dictionary, so a cache entry holds the record itself.                   *)
(***************************************************************************)
EXTENDS Integers, Sequences, FiniteSets, TLC

\* Bounds of the exploration.
MaxCalls == 2
MaxFaultAt == 3

None == "None"
\* None, and the NULL of a column, where a text is expected.
Null == <<None>>

(***************************************************************************)
(* The database snapshot (the tables the queries read), in rowid order.    *)
(* A string the code matches on is the sequence of its characters.         *)
(***************************************************************************)
\* gcd_series joined with gcd_publisher: id, name, first_issue_id.
SeriesTable ==
    << [id |-> "1", name |-> <<"A", "b">>, first_issue_id |-> "11"],
       [id |-> "2", name |-> <<"a", "b", " ", "c">>, first_issue_id |-> "21"],
       [id |-> "3", name |-> <<"c", " ", "A", "b">>, first_issue_id |-> None] >>

\* gcd_issue: key_date is '' (<<>>), 'YYYY-MM-DD' (<<year, month, day>>) or NULL.
IssueTable ==
    << [id |-> "11", series_id |-> "1", number |-> "1", key_date |-> <<"1999", "01", "00">>],
       [id |-> "12", series_id |-> "1", number |-> "1", key_date |-> <<"2000", "01", "00">>],
       [id |-> "13", series_id |-> "1", number |-> "[nn]", key_date |-> <<>>],
       [id |-> "14", series_id |-> "1", number |-> "2", key_date |-> <<"1999", "02", "00">>],
       [id |-> "21", series_id |-> "2", number |-> "[nn]", key_date |-> <<"2000", "03", "00">>],
       [id |-> "22", series_id |-> "2", number |-> "2", key_date |-> Null] >>

\* gcd_story rows of type 19 of an issue (their ids).
StoryIds(issue_id) == IF issue_id = "11" THEN <<"111">> ELSE <<>>

Range(seq) == {seq[i] : i \in DOMAIN seq}
SeriesRows == Range(SeriesTable)
IssueRows == Range(IssueTable)

\* The identifiers callers pass: those of the rows and one of no row.
SeriesIds == {"1", "2", "3", "4"}
IssueIds == {"11", "12", "13", "14", "21", "22", "99"}

\* The covers page of the site for an issue: the src of its first cover_img,
\* "" when the page holds none (no image, or a challenge page).
SiteCover(issue_id) == IF issue_id \in {"11", "12", "21"} THEN "cover" \o issue_id ELSE ""
\* The src of the further cover_img elements of the page.
SiteVariants(issue_id) == IF issue_id = "11" THEN <<"variant11">> ELSE <<>>

(***************************************************************************)
(* Errors.  An uncaught Python exception ends the call like a raise.       *)
(***************************************************************************)
NoErr == [type |-> "none", code |-> 0]
TalkerDataError(sub_code) == [type |-> "TalkerDataError", code |-> sub_code]
TalkerNetworkError(sub_code) == [type |-> "TalkerNetworkError", code |-> sub_code]
\* None[...] on a fetchone() that found no row.
TypeError == [type |-> "TypeError", code |-> 0]

\* What the surroundings do to one call: the SQL statement (counted within
\* the call) that a database fault hits and the fault's kind, the outcome of
\* the requests to the site (nets), and which row SQLite takes where the query
\* leaves it the choice (picks).
Nets == {"ok", "timeout", "error"}
Picks == {"min", "max"}
Envs(nets, picks) ==
    { [fault |-> "none", faultAt |-> 0, net |-> n, pick |-> p] : n \in nets, p \in picks }
    \cup
    { [fault |-> f, faultAt |-> k, net |-> "ok", pick |-> "min"] :
          f \in {"data", "other"}, k \in 1..MaxFaultAt }

VARIABLES
    db_file,                    \* self.db_file: "file" (the database) or "dir" (no file)
    download_gui_covers,        \* self.download_gui_covers
    download_tag_covers,        \* self.download_tag_covers
    nn_is_issue_one,            \* self.nn_is_issue_one
    has_issue_id_type_id_index, \* self.has_issue_id_type_id_index
    has_fts5,                   \* self.has_fts5
    has_fts5_checked,           \* self.has_fts5_checked
    db_index,                   \* the index issue_id_on_type_id exists in the file
    db_fts,                     \* the table fts of the file: "absent", "empty", "built"
    index_creates,              \* CREATE INDEX statements executed on the file so far
    engine_fts5,                \* SQLite was compiled with ENABLE_FTS5
    series_cache,               \* ComicCacher: series id -> entry
    issue_cache,                \* ComicCacher: issue id -> entry
    calls,                      \* public calls made so far
    last,                       \* the last public call and what it did
    mapped                      \* the last record assembled on its own, and from what

vars == <<db_file, download_gui_covers, download_tag_covers, nn_is_issue_one,
          has_issue_id_type_id_index, has_fts5, has_fts5_checked, db_index, db_fts,
          index_creates, engine_fts5, series_cache, issue_cache, calls, last, mapped>>

NoEntry == [present |-> FALSE]
\* cvc.add_series_info(.., True) / cvc.add_issues_info(.., True)
CacheEntry(data) == [present |-> TRUE, complete |-> TRUE, data |-> data]

(***************************************************************************)
(* The running call: the object and file state it has changed so far, its  *)
(* counters, the exception in flight (err) and the value just returned.    *)
(***************************************************************************)
Begin(env) ==
    [ db_file |-> db_file, gui |-> download_gui_covers, tag |-> download_tag_covers,
      nn |-> nn_is_issue_one, has_index |-> has_issue_id_type_id_index,
      has_fts5 |-> has_fts5, has_fts5_checked |-> has_fts5_checked,
      db_index |-> db_index, db_fts |-> db_fts,
      series_cache |-> series_cache, issue_cache |-> issue_cache,
      env |-> env, err |-> NoErr, val |-> None,
      strategy |-> None, created_index |-> 0, create_attempts |-> 0,
      fault_hit |-> "none", net_failed |-> FALSE,
      issue_step |-> [done |-> FALSE],
      nq |-> 0, conns |-> 0, net |-> 0, creads |-> 0, cwrites |-> 0,
      opened |-> 0, closed |-> 0 ]

Raise(c, e) == [c EXCEPT !.err = e]
Return(c, v) == [c EXCEPT !.val = v]
Failed(c) == c.err # NoErr

\* The statements K that follow a call: they run on the state c the call left
\* unless the call raised, and then its exception goes on to the caller.
Then(c, K(_)) == IF Failed(c) THEN c ELSE K(c)

\* A local variable: the statements K run with the value v.
With(v, K(_)) == K(v)

\* with sqlite3.connect(self.db_file) as con, inside the try of every method:
\* a path that is a directory cannot be opened (sqlite3.OperationalError).
\* Leaving the with block commits or rolls back and leaves the connection
\* open; no method calls con.close(), so closed is never counted up.
Connect(c) ==
    IF c.db_file = "file" THEN [c EXCEPT !.conns = @ + 1, !.opened = @ + 1]
    ELSE Raise([c EXCEPT !.conns = @ + 1], TalkerDataError(0))

\* Handlers that lack the sqlite3.DataError clause.
SqlErrorGeneral(kind) == TalkerDataError(0)

\* The handlers around every query: sqlite3.DataError -> TalkerDataError(1),
\* any other sqlite3.Error -> TalkerDataError(0).
SqlError(kind) == IF kind = "data" THEN TalkerDataError(1) ELSE TalkerDataError(0)

\* cur.execute(..) on an open connection: the statement is counted, and it
\* fails when the fault of this call hits it.
Execute(c) ==
    IF Failed(c) THEN c
    ELSE IF c.env.fault # "none" /\ c.env.faultAt = c.nq + 1
        THEN Raise([c EXCEPT !.nq = @ + 1, !.fault_hit = c.env.fault],
                   SqlError(c.env.fault))
    ELSE [c EXCEPT !.nq = @ + 1]

(***************************************************************************)
(* _find_issue_images                                                      *)
(***************************************************************************)
\* requests.get(..): the request is counted; net_failed notes that it failed.
Request(c) == [c EXCEPT !.net = @ + 1, !.net_failed = (c.env.net # "ok")]

\* A fetch that swallows a failed request and reports no image.
FindIssueImagesSwallowing(c, issue_id) ==
    IF c.env.net # "ok" THEN Return(Request(c), [cover |-> "", variants |-> <<>>])
    ELSE Return(Request(c), [cover |-> SiteCover(issue_id),
                             variants |-> SiteVariants(issue_id)])

FindIssueImages(c, issue_id) ==
    CASE c.env.net = "timeout" -> Raise(Request(c), TalkerNetworkError(4))
      [] c.env.net = "error" -> Raise(Request(c), TalkerNetworkError(0))
      [] OTHER -> Return(Request(c), [cover |-> SiteCover(issue_id),
                                      variants |-> SiteVariants(issue_id)])

(***************************************************************************)
(* _find_series_image                                                      *)
(***************************************************************************)
SeriesRowsOf(series_id) == {r \in SeriesRows : r.id = series_id}

FindSeriesImage(c, series_id) ==
    Then(Execute(Connect(c)), LAMBDA c1 :
    With(SeriesRowsOf(series_id), LAMBDA rows :
    \* issue_id = cur.fetchone()[0]
    IF rows = {} THEN Raise(c1, TypeError)
    ELSE
    With((CHOOSE r \in rows : TRUE).first_issue_id, LAMBDA issue_id :
    IF issue_id # None
        THEN Then(FindIssueImages(c1, issue_id), LAMBDA c2 : Return(c2, c2.val.cover))
        ELSE Return(c1, ""))))

(***************************************************************************)
(* _fetch_series_data                                                      *)
(***************************************************************************)
GCDSeries(row, image, cover_downloaded) ==
    [id |-> row.id, name |-> row.name, image |-> image,
     cover_downloaded |-> cover_downloaded]

\* A cache test that asks only for a complete entry, whatever the cover policy.
SeriesCacheHitAnyCover(c, cached) == cached.present /\ cached.complete

\* if cached_series is not None and cached_series[1]: the two returns
SeriesCacheHit(c, cached) ==
    cached.present /\ cached.complete
    /\ ((c.gui /\ cached.data.cover_downloaded) \/ ~c.gui)

FetchSeriesData(c, series_id) ==
    With(c.series_cache[series_id], LAMBDA cached :
    IF SeriesCacheHit(c, cached) THEN Return([c EXCEPT !.creads = @ + 1], cached.data)
    ELSE
    Then(Execute(Connect([c EXCEPT !.creads = @ + 1])), LAMBDA c1 :
    Then(IF c1.gui THEN FindSeriesImage(c1, series_id) ELSE Return(c1, ""), LAMBDA c2 :
    With(SeriesRowsOf(series_id), LAMBDA rows :
    IF rows = {} THEN Raise(c2, TypeError)
    ELSE
    With(GCDSeries(CHOOSE r \in rows : TRUE, c2.val, c2.gui), LAMBDA result :
    Return([c2 EXCEPT !.series_cache[result.id] = CacheEntry(result),
                      !.cwrites = @ + 1],
           result))))))

(***************************************************************************)
(* _format_search_results                                                  *)
(***************************************************************************)
ComicSeries(record) ==
    [id |-> record.id, name |-> record.name, image_url |-> record.image]

FormatSearchResults(search_results) ==
    [i \in DOMAIN search_results |-> ComicSeries(search_results[i])]

(***************************************************************************)
(* check_db_filename_not_empty                                             *)
(***************************************************************************)
CheckDbFilenameNotEmpty(c) ==
    IF c.db_file # "file" THEN Raise(c, TalkerDataError(3)) ELSE c

(***************************************************************************)
(* check_create_index                                                      *)
(***************************************************************************)
\* An index check that creates the index without looking for it first.
CheckCreateIndexBlind(c) ==
    Then(CheckDbFilenameNotEmpty(c), LAMBDA c0 :
    IF c0.has_index THEN c0
    ELSE
    Then(Execute(Connect(c0)), LAMBDA c1 :
    Then(Execute([c1 EXCEPT !.create_attempts = @ + 1]), LAMBDA c2 :
         [c2 EXCEPT !.db_index = TRUE, !.has_index = TRUE, !.created_index = @ + 1])))

CheckCreateIndex(c) ==
    Then(CheckDbFilenameNotEmpty(c), LAMBDA c0 :
    IF c0.has_index THEN c0
    ELSE
    \* SELECT name FROM sqlite_master WHERE type = 'index' ...
    Then(Execute(Connect(c0)), LAMBDA c1 :
    IF c1.db_index THEN [c1 EXCEPT !.has_index = TRUE]
    ELSE
    \* CREATE INDEX issue_id_on_type_id ...
    Then(Execute([c1 EXCEPT !.create_attempts = @ + 1]), LAMBDA c2 :
         [c2 EXCEPT !.db_index = TRUE, !.has_index = TRUE, !.created_index = @ + 1])))

(***************************************************************************)
(* check_db_fts5                                                           *)
(***************************************************************************)
CheckDbFts5(c) ==
    \* connect(self.db_file), connect(":memory:"), pragma compile_options
    With(Execute(Then(Connect(c), LAMBDA c0 :
                      [c0 EXCEPT !.conns = @ + 1, !.opened = @ + 1])), LAMBDA c1 :
    \* this try has the one handler: every sqlite3.Error -> TalkerDataError(0)
    IF Failed(c1) THEN Raise(c1, SqlError("other"))
    ELSE IF ~engine_fts5 THEN [c1 EXCEPT !.has_fts5_checked = TRUE]
    ELSE
    \* SELECT name FROM sqlite_master WHERE type = 'table' AND name = 'fts'
    Then(Execute(Connect(c1)), LAMBDA c2 :
    IF c2.db_fts # "absent"
        THEN [c2 EXCEPT !.has_fts5 = TRUE, !.has_fts5_checked = TRUE]
    ELSE
    \* CREATE VIRTUAL TABLE fts ... (a statement of its own transaction), then
    \* INSERT INTO fts(fts) VALUES('rebuild'), rolled back when it fails
    Then(Execute(c2), LAMBDA c3 :
    Then(Execute([c3 EXCEPT !.db_fts = "empty"]), LAMBDA c4 :
         [c4 EXCEPT !.db_fts = "built"]))))

(***************************************************************************)
(* search_for_series                                                       *)
(***************************************************************************)
\* str.replace(ch, by) on a sequence of characters
RECURSIVE Replace(_, _, _)
Replace(s, ch, by) ==
    IF s = <<>> THEN <<>>
    ELSE (IF Head(s) = ch THEN by ELSE <<Head(s)>>) \o Replace(Tail(s), ch, by)

\* search_series_name.replace(" ", "%") + "%"
LikePattern(series_name) == Replace(series_name, " ", <<"%">>) \o <<"%">>

\* the quotes escaped, the whole wrapped in double quotes, then every space
\* replaced by '" "'
FtsQuery(series_name) ==
    Replace(<<"\"">> \o Replace(Replace(series_name, "'", <<"'", "'">>),
                                 "\"", <<"\"", "\"">>) \o <<"\"">>,
            " ", <<"\"", " ", "\"">>)

\* SQLite folds the ASCII letters for LIKE and in the unicode61 tokenizer.
Lower(ch) ==
    CASE ch = "A" -> "a" [] ch = "B" -> "b" [] ch = "C" -> "c" [] OTHER -> ch

\* name LIKE pattern: % is any run of characters, _ any one character.
RECURSIVE LikeMatch(_, _)
LikeMatch(pattern, s) ==
    IF pattern = <<>> THEN s = <<>>
    ELSE IF Head(pattern) = "%"
        THEN LikeMatch(Tail(pattern), s) \/ (s # <<>> /\ LikeMatch(pattern, Tail(s)))
    ELSE /\ s # <<>>
         /\ (Head(pattern) = "_" \/ Lower(Head(pattern)) = Lower(Head(s)))
         /\ LikeMatch(Tail(pattern), Tail(s))

\* The tokens of a text for the full-text index: the folded runs of characters
\* between separators (the names here are their own Porter stems).
RECURSIVE TokensOf(_, _)
TokensOf(s, cur) ==
    IF s = <<>> THEN (IF cur = <<>> THEN {} ELSE {cur})
    ELSE IF Head(s) \in {" ", "\"", "'"}
        THEN (IF cur = <<>> THEN {} ELSE {cur}) \cup TokensOf(Tail(s), <<>>)
    ELSE TokensOf(Tail(s), Append(cur, Lower(Head(s))))

\* fts MATCH query: every quoted word of the query is a token of the name.
FtsMatch(query, name) == TokensOf(query, <<>>) \subseteq TokensOf(name, <<>>)

SearchStrategy(c, literal) ==
    IF literal THEN "literal" ELSE IF ~c.has_fts5 THEN "like" ELSE "fts"

\* A literal search that compares the names with the case folded.
SearchRowsFolded(c, strategy, series_name) ==
    LET Hit(r) ==
            CASE strategy = "literal" ->
                     [i \in DOMAIN r.name |-> Lower(r.name[i])]
                         = [i \in DOMAIN series_name |-> Lower(series_name[i])]
              [] strategy = "like" -> LikeMatch(LikePattern(series_name), r.name)
              [] OTHER -> c.db_fts = "built" /\ FtsMatch(FtsQuery(series_name), r.name)
    IN  SelectSeq(SeriesTable, Hit)

SearchRows(c, strategy, series_name) ==
    LET Hit(r) ==
            CASE strategy = "literal" -> r.name = series_name
              [] strategy = "like" -> LikeMatch(LikePattern(series_name), r.name)
              [] OTHER -> c.db_fts = "built" /\ FtsMatch(FtsQuery(series_name), r.name)
    IN  SelectSeq(SeriesTable, Hit)

\* A search that attaches the first issue's cover under the cover policy.
SearchResultWithCover(c, record) ==
    GCDSeries(record,
              IF c.gui /\ record.first_issue_id # None
                  THEN SiteCover(record.first_issue_id) ELSE "",
              c.gui)

\* result = GCDSeries(.., format="", image="", cover_downloaded=False)
SearchResult(c, record) == GCDSeries(record, "", FALSE)

SearchForSeriesCall(c, series_name, literal) ==
    Then(CheckDbFilenameNotEmpty(c), LAMBDA c0 :
    Then(IF c0.has_fts5_checked THEN c0 ELSE CheckDbFts5(c0), LAMBDA c1 :
    With(SearchStrategy(c1, literal), LAMBDA strategy :
    Then(Execute(Connect([c1 EXCEPT !.strategy = strategy])), LAMBDA c2 :
    With(SearchRows(c2, strategy, series_name), LAMBDA rows :
         Return(c2, FormatSearchResults(
                        [i \in DOMAIN rows |-> SearchResult(c2, rows[i])])))))))

(***************************************************************************)
(* _format_gcd_issue and _map_comic_issue_to_metadata (the identifying and *)
(* the image fields)                                                       *)
(***************************************************************************)
FormatGcdIssue(row, complete) ==
    LET gcd_issue == [id |-> row.id, key_date |-> row.key_date, number |-> row.number,
                      series_id |-> row.series_id, image |-> "",
                      alt_image_urls |-> <<>>, covers_downloaded |-> FALSE]
    IN  IF complete
            THEN gcd_issue @@ [story_ids |-> StoryIds(row.id), credits |-> <<>>]
            ELSE gcd_issue

\* GenericMetadata()
GenericMetadata ==
    [issue_id |-> None, series_id |-> None, _cover_image |-> None,
     _alternate_images |-> <<>>]

MapComicIssueToMetadata(issue, series) ==
    [issue_id |-> issue.id, series_id |-> series.id, _cover_image |-> issue.image,
     _alternate_images |-> issue.alt_image_urls]

(***************************************************************************)
(* _map_comic_issue_to_metadata: the fields computed from the issue's text *)
(* columns.  A text is the sequence of its characters.                     *)
(***************************************************************************)
\* str.casefold() of the letters used here
CasefoldChar(ch) ==
    CASE ch = "U" -> "u" [] ch = "S" -> "s" [] ch = "D" -> "d"
      [] ch = "E" -> "e" [] ch = "R" -> "r" [] OTHER -> ch

Casefold(s) == [i \in DOMAIN s |-> CasefoldChar(s[i])]

\* s.endswith(suffix)
EndsWith(s, suffix) ==
    /\ Len(suffix) <= Len(s)
    /\ SubSeq(s, Len(s) - Len(suffix) + 1, Len(s)) = suffix

\* s.split(sep): the pieces of s between the occurrences of sep, found from the
\* left; cur is the piece being read.
RECURSIVE SplitFrom(_, _, _)
SplitFrom(s, sep, cur) ==
    IF s = <<>> THEN <<cur>>
    ELSE IF Len(s) >= Len(sep) /\ SubSeq(s, 1, Len(sep)) = sep
        THEN <<cur>> \o SplitFrom(SubSeq(s, Len(sep) + 1, Len(s)), sep, <<>>)
    ELSE SplitFrom(Tail(s), sep, Append(cur, Head(s)))

Split(s, sep) == SplitFrom(s, sep, <<>>)

\* utils.xlate_float of a text: the digits and dots of it, None when it has none
\* (a number is written as its digits).
XlateFloat(s) ==
    With(SelectSeq(s, LAMBDA ch : ch \in {"0", "1", "2", "3", "4", "5", "6", "7", "8", "9", "."}),
         LAMBDA digits : IF digits = <<>> THEN Null ELSE digits)

\* for price in prices: if price.casefold().endswith(self.currency.casefold()):
\*     md.price = utils.xlate_float(price)
RECURSIVE PriceLoop(_, _, _, _)
PriceLoop(prices, k, currency, price) ==
    IF k > Len(prices) THEN price
    ELSE PriceLoop(prices, k + 1, currency,
                   IF EndsWith(Casefold(prices[k]), Casefold(currency))
                       THEN XlateFloat(prices[k]) ELSE price)

\* if issue.get("price"): prices = issue["price"].split(";") ...
MapPrice(raw_price, currency) ==
    IF raw_price = Null \/ raw_price = <<>> THEN Null
    ELSE PriceLoop(Split(raw_price, <<";">>), 1, currency, Null)

\* sep.join(texts)
RECURSIVE Join(_, _)
Join(texts, sep) ==
    IF texts = <<>> THEN <<>>
    ELSE IF Len(texts) = 1 THEN texts[1]
    ELSE texts[1] \o sep \o Join(Tail(texts), sep)

BlankLine == <<"\r", "\n", "\r", "\n">>

\* for i, title in enumerate(issue["story_titles"]):
\*     if title and issue["synopses"][i]: md.description += f"{title}: {synopsis}\r\n\r\n"
RECURSIVE TitledSynopses(_, _, _)
TitledSynopses(story_titles, synopses, i) ==
    IF i > Len(story_titles) THEN <<>>
    ELSE (IF story_titles[i] # <<>> /\ synopses[i] # <<>>
              THEN story_titles[i] \o <<":", " ">> \o synopses[i] \o BlankLine
              ELSE <<>>)
         \o TitledSynopses(story_titles, synopses, i + 1)

\* md.description = series.get("notes", ""); md.description += issue.get("issue_notes", "")
\* None + text and text + None raise TypeError.
CombinedNotes(self, issue, series) ==
    IF ~self.combine_notes THEN [err |-> NoErr, text |-> <<>>]
    ELSE IF series.notes = Null \/ issue.issue_notes = Null
        THEN [err |-> TypeError, text |-> <<>>]
    ELSE [err |-> NoErr, text |-> series.notes \o issue.issue_notes]

\* A description made of the synopses alone, whatever the number of titles.
MapDescriptionSynopsesOnly(issue) == Join(issue.synopses, BlankLine)

MapDescription(issue) ==
    IF Len(issue.synopses) = Len(issue.story_titles)
        THEN TitledSynopses(issue.story_titles, issue.synopses, 1)
        ELSE Join(issue.synopses, BlankLine)

\* _match_format: the first of the known words in the text, title-cased; a
\* text here is the sequence of its words.  re.search(pattern, None) raises
\* TypeError.
FormatWords == {"annual", "special", "hardcover"}

TitleCase(word) ==
    CASE word = "annual" -> "Annual" [] word = "special" -> "Special"
      [] word = "hardcover" -> "Hardcover" [] OTHER -> word

MatchFormat(string) ==
    IF string = Null THEN [err |-> TypeError, format |-> None]
    ELSE With(SelectSeq(string, LAMBDA w : w \in FormatWords), LAMBDA found :
              [err |-> NoErr,
               format |-> IF found = <<>> THEN None ELSE TitleCase(found[1])])

\* The record _map_comic_issue_to_metadata returns, or the exception it raises.
MapComicIssueTexts(self, issue, series) ==
    With(CombinedNotes(self, issue, series), LAMBDA notes :
    With(MatchFormat(series.format), LAMBDA format :
    IF notes.err # NoErr THEN [err |-> notes.err]
    ELSE IF format.err # NoErr THEN [err |-> format.err]
    ELSE [err |-> NoErr,
          price |-> MapPrice(issue.price, self.currency),
          description |-> notes.text \o MapDescription(issue),
          format |-> format.format]))

(***************************************************************************)
(* The issue queries.                                                      *)
(***************************************************************************)
\* The issue numbers in the order of the text collation.
NumberOrder == <<"1", "2", "[nn]">>

\* GROUP BY gcd_issue.number: one row per number, its bare columns those of
\* one row of the group, which SQLite chooses.
GroupByNumber(rows, pick) ==
    LET Group(n) == SelectSeq(rows, LAMBDA r : r.number = n)
        Chosen(group) == IF pick = "min" THEN group[1] ELSE group[Len(group)]
    IN  With(SelectSeq(NumberOrder, LAMBDA n : Group(n) # <<>>), LAMBDA numbers :
             [i \in DOMAIN numbers |-> Chosen(Group(numbers[i]))])

\* gcd_issue.key_date LIKE year_search, year_search "%" or str(year) + "%"
\* (NULL LIKE pattern is NULL, which the WHERE clause takes for false)
KeyDateLike(key_date, year) ==
    /\ key_date # Null
    /\ (year = None \/ (key_date # <<>> /\ key_date[1] = year))

\* The policy applied to every requested number.
UseNNAnyNumber(c, issue_number) == c.nn

\* self.nn_is_issue_one and issue_number == "1"
UseNN(c, issue_number) == c.nn /\ issue_number = "1"

\* WHERE gcd_issue.series_id=? AND gcd_issue.number=? [OR number='[nn]' in the
\* same parentheses] AND (gcd_issue.key_date LIKE ? OR gcd_issue.key_date='')
IssuesByNumberRows(c, series_id, issue_number, year) ==
    SelectSeq(IssueTable,
              LAMBDA r : /\ r.series_id = series_id
                         /\ \/ r.number = issue_number
                            \/ UseNN(c, issue_number) /\ r.number = "[nn]"
                         /\ (KeyDateLike(r.key_date, year) \/ r.key_date = <<>>))

(***************************************************************************)
(* fetch_issues_in_series                                                  *)
(***************************************************************************)
\* An empty list for a series without issues.
NoIssuesFoundEmptyList == <<>>

\* No issue(s) found: return [GenericMetadata()]
NoIssuesFound == <<GenericMetadata>>

FetchIssuesInSeriesCall(c, series_id) ==
    Then(FetchSeriesData(c, series_id), LAMBDA c1 :
    Then(CheckCreateIndex(c1), LAMBDA c2 :
    Then(Execute(Connect(c2)), LAMBDA c3 :
    With(GroupByNumber(SelectSeq(IssueTable, LAMBDA r : r.series_id = series_id),
                       c.env.pick), LAMBDA rows :
         IF rows = <<>> THEN Return(c3, NoIssuesFound)
         ELSE Return(c3, [i \in DOMAIN rows |->
                             MapComicIssueToMetadata(FormatGcdIssue(rows[i], FALSE),
                                                     c1.val)])))))

(***************************************************************************)
(* fetch_issues_by_series_issue_num_and_year                               *)
(***************************************************************************)
\* for record in rows: the records from the i-th on, appended to results
RECURSIVE AppendRecords(_, _, _, _, _)
AppendRecords(c, rows, i, series, results) ==
    IF i > Len(rows) THEN Return(c, results)
    ELSE
    With(FormatGcdIssue(rows[i], FALSE), LAMBDA issue :
    Then(IF c.tag THEN FindIssueImages(c, issue.id) ELSE c, LAMBDA c1 :
    With(IF c.tag
             THEN [issue EXCEPT !.image = c1.val.cover,
                                !.alt_image_urls = c1.val.variants,
                                !.covers_downloaded = TRUE]
             ELSE issue,
         LAMBDA full :
    AppendRecords(c1, rows, i + 1, series,
                  Append(results, MapComicIssueToMetadata(full, series))))))

\* for vid in series_id_list: the series from the k-th on
RECURSIVE SeriesLoop(_, _, _, _, _, _)
SeriesLoop(c, series_id_list, k, issue_number, year, results) ==
    IF k > Len(series_id_list) THEN Return(c, results)
    ELSE
    Then(FetchSeriesData(c, series_id_list[k]), LAMBDA c1 :
    Then(Execute(c1), LAMBDA c2 :
    With(GroupByNumber(IssuesByNumberRows(c, series_id_list[k], issue_number, year),
                       c.env.pick), LAMBDA rows :
    Then(AppendRecords(c2, rows, 1, c1.val, results), LAMBDA c3 :
         SeriesLoop(c3, series_id_list, k + 1, issue_number, year, c3.val)))))

FetchIssuesBySeriesIssueNumAndYearCall(c, series_id_list, issue_number, year) ==
    Then(CheckCreateIndex(c), LAMBDA c1 :
    Then(Connect(c1), LAMBDA c2 :
         SeriesLoop(c2, series_id_list, 1, issue_number, year, <<>>)))

(***************************************************************************)
(* _find_issue_credits                                                     *)
(***************************************************************************)
RECURSIVE StoryCredits(_, _, _, _)
StoryCredits(c, story_id_list, k, credit_results) ==
    IF k > Len(story_id_list) THEN Return(c, credit_results)
    ELSE Then(Execute(c), LAMBDA c1 :
              StoryCredits(c1, story_id_list, k + 1,
                           Append(credit_results, [story_id |-> story_id_list[k]])))

FindIssueCredits(c, issue_id, story_id_list) ==
    Then(Execute(Connect(c)), LAMBDA c1 : StoryCredits(c1, story_id_list, 1, <<>>))

(***************************************************************************)
(* _fetch_issue_by_issue_id                                                *)
(***************************************************************************)
\* A cache test that asks only for a complete entry, whatever the cover policy.
IssueCacheHitAnyCover(c, cached) == cached.present /\ cached.complete

\* if cached_issue and cached_issue[1]: the two returns
IssueCacheHit(c, cached) ==
    cached.present /\ cached.complete
    /\ ((c.gui /\ cached.data.covers_downloaded) \/ ~c.gui)

\* A missing row reported as a general data error.
IssueNotFoundGeneral(c, issue_id) == Raise(c, TalkerDataError(0))

\* raise TalkerDataError(self.name, 3, f"Issue ID {issue_id} not found")
IssueNotFound(c, issue_id) == Raise(c, TalkerDataError(3))

\* A resolution that puts the record in the cache as soon as the row is read,
\* before the credits and the covers are fetched.
FetchIssueByIssueIdCacheFirst(c, issue_id) ==
    With(c.issue_cache[issue_id], LAMBDA cached :
    IF IssueCacheHit(c, cached) THEN Return([c EXCEPT !.creads = @ + 1], cached.data)
    ELSE
    Then(CheckCreateIndex([c EXCEPT !.creads = @ + 1]), LAMBDA c1 :
    Then(Execute(Connect(c1)), LAMBDA c2 :
    With(SelectSeq(IssueTable, LAMBDA r : r.id = issue_id), LAMBDA rows :
    IF rows = <<>> THEN IssueNotFound(c2, issue_id)
    ELSE
    With(FormatGcdIssue(rows[1], TRUE), LAMBDA issue_result :
    Then(FindIssueCredits([c2 EXCEPT !.issue_cache[issue_result.id] =
                                         CacheEntry(issue_result),
                                     !.cwrites = @ + 1],
                          issue_id, issue_result.story_ids), LAMBDA c3 :
    Then(IF c3.gui THEN FindIssueImages(c3, issue_result.id) ELSE c3, LAMBDA c4 :
    With(IF c4.gui
             THEN [issue_result EXCEPT !.credits = c3.val,
                                       !.image = c4.val.cover,
                                       !.alt_image_urls = c4.val.variants,
                                       !.covers_downloaded = TRUE]
             ELSE [issue_result EXCEPT !.credits = c3.val,
                                       !.covers_downloaded = FALSE],
         LAMBDA full :
    Return([c4 EXCEPT !.issue_cache[full.id] = CacheEntry(full)], full)))))))))

FetchIssueByIssueId(c, issue_id) ==
    With(c.issue_cache[issue_id], LAMBDA cached :
    IF IssueCacheHit(c, cached) THEN Return([c EXCEPT !.creads = @ + 1], cached.data)
    ELSE
    Then(CheckCreateIndex([c EXCEPT !.creads = @ + 1]), LAMBDA c1 :
    Then(Execute(Connect(c1)), LAMBDA c2 :
    With(SelectSeq(IssueTable, LAMBDA r : r.id = issue_id), LAMBDA rows :
    IF rows = <<>> THEN IssueNotFound(c2, issue_id)
    ELSE
    With(FormatGcdIssue(rows[1], TRUE), LAMBDA issue_result :
    Then(FindIssueCredits(c2, issue_id, issue_result.story_ids), LAMBDA c3 :
    Then(IF c3.gui THEN FindIssueImages(c3, issue_result.id) ELSE c3, LAMBDA c4 :
    With(IF c4.gui
             THEN [issue_result EXCEPT !.credits = c3.val,
                                       !.image = c4.val.cover,
                                       !.alt_image_urls = c4.val.variants,
                                       !.covers_downloaded = TRUE]
             ELSE [issue_result EXCEPT !.credits = c3.val,
                                       !.covers_downloaded = FALSE],
         LAMBDA full :
    Return([c4 EXCEPT !.issue_cache[full.id] = CacheEntry(full),
                      !.cwrites = @ + 1],
           full)))))))))

(***************************************************************************)
(* _fetch_issue_data_by_issue_id                                           *)
(***************************************************************************)
\* issue_step notes what the call had done when _fetch_issue_by_issue_id ended.
IssueStep(c, c1) ==
    [c1 EXCEPT !.issue_step = [done |-> TRUE, ok |-> ~Failed(c1),
                               nq |-> c1.nq - c.nq, conns |-> c1.conns - c.conns,
                               net |-> c1.net - c.net]]

FetchIssueDataByIssueId(c, issue_id) ==
    Then(IssueStep(c, FetchIssueByIssueId(c, issue_id)), LAMBDA c1 :
    Then(FetchSeriesData(c1, c1.val.series_id), LAMBDA c2 :
         Return(c2, MapComicIssueToMetadata(c1.val, c2.val))))

(***************************************************************************)
(* _fetch_issue_data                                                       *)
(***************************************************************************)
\* WHERE gcd_issue.series_id=? AND gcd_issue.number=? [OR gcd_issue.number='[nn]']:
\* AND binds tighter than OR
IssueDataRows(c, series_id, issue_number) ==
    SelectSeq(IssueTable,
              LAMBDA r : \/ r.series_id = series_id /\ r.number = issue_number
                         \/ UseNN(c, issue_number) /\ r.number = "[nn]")

FetchIssueData(c, series_id, issue_number) ==
    Then(Execute(Connect(c)), LAMBDA c1 :
    With(IssueDataRows(c, series_id, issue_number), LAMBDA rows :
         \* row = cur.fetchone(); row["id"]
         IF rows = <<>> THEN Raise(c1, TypeError)
         \* without ORDER BY the row that comes first is SQLite's choice
         ELSE FetchIssueDataByIssueId(
                  c1, (IF c.env.pick = "min" THEN rows[1] ELSE rows[Len(rows)]).id)))

(***************************************************************************)
(* fetch_comic_data                                                        *)
(***************************************************************************)
FetchComicDataCall(c, issue_id, series_id, issue_number) ==
    Then(CheckDbFilenameNotEmpty(c), LAMBDA c0 :
         IF issue_id # None THEN FetchIssueDataByIssueId(c0, issue_id)
         ELSE IF issue_number # "" /\ series_id # None
             THEN FetchIssueData(c0, series_id, issue_number)
         ELSE Return(c0, GenericMetadata))

(***************************************************************************)
(* The end of a public call: the state it leaves and the record of it.     *)
(* What a call does depends on the record of the call before it in nothing,*)
(* and parse_settings with the values in force changes that record only:   *)
(* the calls are explored from the states construction and parse_settings  *)
(* leave, which are all the states of the talker a call can start in.      *)
(***************************************************************************)
Finish(c, op, arg, pre) ==
    /\ calls < MaxCalls
    /\ last.op \in {"init", "parse_settings"}
    /\ calls' = calls + 1
    /\ db_file' = c.db_file
    /\ has_issue_id_type_id_index' = c.has_index
    /\ has_fts5' = c.has_fts5
    /\ has_fts5_checked' = c.has_fts5_checked
    /\ db_index' = c.db_index
    /\ db_fts' = c.db_fts
    /\ index_creates' = index_creates + c.create_attempts
    /\ series_cache' = c.series_cache
    /\ issue_cache' = c.issue_cache
    /\ last' = [op |-> op, arg |-> arg, pre |-> pre, err |-> c.err,
                result |-> IF Failed(c) THEN None ELSE c.val,
                nq |-> c.nq, conns |-> c.conns, net |-> c.net,
                opened |-> c.opened, closed |-> c.closed,
                creads |-> c.creads, cwrites |-> c.cwrites,
                strategy |-> c.strategy, created_index |-> c.created_index,
                fault_hit |-> c.fault_hit, net_failed |-> c.net_failed,
                issue_step |-> c.issue_step]
    /\ UNCHANGED <<download_gui_covers, download_tag_covers, nn_is_issue_one, engine_fts5,
                   mapped>>

(***************************************************************************)
(* fetch_series                                                            *)
(***************************************************************************)
FetchSeriesCall(c, series_id) ==
    Then(FetchSeriesData(c, series_id), LAMBDA c1 :
         Return(c1, FormatSearchResults(<<c1.val>>)[1]))

FetchSeries ==
    \E series_id \in SeriesIds, env \in Envs(Nets, {"min"}) :
        Finish(FetchSeriesCall(Begin(env), series_id), "fetch_series", series_id,
               series_cache[series_id])

\* The arguments the calls are made with.
SeriesNames == { <<"A", "b">>, <<"a", "b">>, <<"a", "b", " ", "c">>, <<"c">> }
SeriesIdLists == { <<"1">>, <<"2", "1">>, <<"3">>, <<"4", "1">> }
IssueNumbers == {"1", "2"}
Years == {None, "2000"}
ComicDataArgs ==
    { [issue_id |-> i, series_id |-> None, issue_number |-> ""] : i \in {"11", "13", "99"} }
    \cup { [issue_id |-> None, series_id |-> "2", issue_number |-> "1"],
           [issue_id |-> None, series_id |-> "1", issue_number |-> "2"],
           [issue_id |-> None, series_id |-> "3", issue_number |-> "2"],
           [issue_id |-> None, series_id |-> None, issue_number |-> ""] }

SearchForSeries ==
    \E series_name \in SeriesNames, literal \in BOOLEAN, env \in Envs({"ok"}, {"min"}) :
        Finish(SearchForSeriesCall(Begin(env), series_name, literal),
               "search_for_series", [series_name |-> series_name, literal |-> literal],
               NoEntry)

FetchIssuesInSeries ==
    \E series_id \in SeriesIds, env \in Envs(Nets, Picks) :
        Finish(FetchIssuesInSeriesCall(Begin(env), series_id),
               "fetch_issues_in_series", series_id, series_cache[series_id])

FetchIssuesBySeriesIssueNumAndYear ==
    \E series_id_list \in SeriesIdLists, issue_number \in IssueNumbers, year \in Years,
       env \in Envs(Nets, Picks) :
        Finish(FetchIssuesBySeriesIssueNumAndYearCall(Begin(env), series_id_list,
                                                      issue_number, year),
               "fetch_issues_by_series_issue_num_and_year",
               [series_id_list |-> series_id_list, issue_number |-> issue_number,
                year |-> year],
               NoEntry)

FetchComicData ==
    \E a \in ComicDataArgs, env \in Envs(Nets, Picks) :
        Finish(FetchComicDataCall(Begin(env), a.issue_id, a.series_id, a.issue_number),
               "fetch_comic_data", a,
               IF a.issue_id # None THEN issue_cache[a.issue_id] ELSE NoEntry)

(***************************************************************************)
(* parse_settings: the host hands the talker its settings.                 *)
(***************************************************************************)
ParseSettings ==
    /\ calls < MaxCalls
    /\ \E f \in {"file", "dir"}, g, t, n \in BOOLEAN :
          /\ db_file' = f
          /\ download_gui_covers' = g
          /\ download_tag_covers' = t
          /\ nn_is_issue_one' = n
    /\ last' = [op |-> "parse_settings"]
    /\ UNCHANGED <<has_issue_id_type_id_index, has_fts5, has_fts5_checked, db_index,
                   db_fts, index_creates, engine_fts5, series_cache, issue_cache, calls,
                   mapped>>

Init ==
    /\ db_file = "dir"
    /\ download_gui_covers = FALSE
    /\ download_tag_covers = FALSE
    /\ nn_is_issue_one = TRUE
    /\ has_issue_id_type_id_index = FALSE
    /\ has_fts5 = FALSE
    /\ has_fts5_checked = FALSE
    /\ db_index \in BOOLEAN
    /\ db_fts \in {"absent", "built"}
    /\ index_creates = 0
    /\ engine_fts5 \in BOOLEAN
    /\ series_cache = [s \in SeriesIds |-> NoEntry]
    /\ issue_cache = [i \in IssueIds |-> NoEntry]
    /\ calls = 0
    /\ last = [op |-> "init"]
    /\ mapped = [op |-> "init"]

Next ==
    \/ ParseSettings
    \/ SearchForSeries
    \/ FetchSeries
    \/ FetchIssuesInSeries
    \/ FetchIssuesBySeriesIssueNumAndYear
    \/ FetchComicData

\* Every call in any order.
Spec == Init /\ [][Next]_vars

\* The calls of one method, the settings changing between them.
NextSearch == ParseSettings \/ SearchForSeries
SpecSearch == Init /\ [][NextSearch]_vars

NextSeries == ParseSettings \/ FetchSeries
SpecSeries == Init /\ [][NextSeries]_vars

NextInSeries == ParseSettings \/ FetchIssuesInSeries
SpecInSeries == Init /\ [][NextInSeries]_vars

NextByNumber == ParseSettings \/ FetchIssuesBySeriesIssueNumAndYear
SpecByNumber == Init /\ [][NextByNumber]_vars

NextComicData == ParseSettings \/ FetchComicData
SpecComicData == Init /\ [][NextComicData]_vars

\* The calls that fetch covers.
NextCovers ==
    \/ ParseSettings
    \/ FetchSeries
    \/ FetchIssuesBySeriesIssueNumAndYear
    \/ FetchComicData
SpecCovers == Init /\ [][NextCovers]_vars

(***************************************************************************)
(* _map_comic_issue_to_metadata applied on its own to issue and series     *)
(* records: the texts a record can hold, and the settings of the talker.   *)
(***************************************************************************)
RawPrices ==
    { Null, <<>>,
      <<"1", " ", "U", "S", "D", ";", " ", "2", " ", "E", "U", "R">>,
      <<"1", " ", "U", "S", "D", ";", " ", "2", " ", "U", "S", "D">>,
      <<"3", " ", "u", "s", "d">> }
Currencies == { <<>>, <<"U", "S", "D">>, <<"e", "u", "r">>, <<"G", "B", "P">> }
StoryTitleLists == { <<>>, << <<"A">> >>, << <<"A">>, <<"B">> >>, << <<"A">>, <<>> >> }
SynopsisLists == { <<>>, << <<"x">> >>, << <<"x">>, <<"y">> >> }
NoteTexts == { Null, <<"n">> }
FormatTexts == { Null, <<>>, <<"giant", "annual">> }

MapIssue ==
    \E price \in RawPrices, currency \in Currencies, combine_notes \in BOOLEAN,
       story_titles \in StoryTitleLists, synopses \in SynopsisLists,
       issue_notes \in NoteTexts, notes \in NoteTexts, format \in FormatTexts :
        LET self == [currency |-> currency, combine_notes |-> combine_notes]
            issue == [price |-> price, issue_notes |-> issue_notes,
                      story_titles |-> story_titles, synopses |-> synopses]
            series == [notes |-> notes, format |-> format]
        IN  \* the function keeps no state: one application shows all it does
            /\ mapped.op = "init"
            /\ mapped' = [op |-> "map", self |-> self, issue |-> issue, series |-> series,
                          md |-> MapComicIssueTexts(self, issue, series)]
            /\ UNCHANGED <<db_file, download_gui_covers, download_tag_covers,
                           nn_is_issue_one, has_issue_id_type_id_index, has_fts5,
                           has_fts5_checked, db_index, db_fts, index_creates, engine_fts5,
                           series_cache, issue_cache, calls, last>>

NextMap == MapIssue
SpecMap == Init /\ [][NextMap]_vars

(***************************************************************************)
(* The story columns of an issue: the query of _fetch_issue_by_issue_id    *)
(* concatenates them over the issue's stories and _format_gcd_issue splits *)
(* them back into lists.                                                   *)
(***************************************************************************)
\* GROUP_CONCAT(CASE WHEN x IS NOT NULL AND x != '' THEN x END, sep): the
\* values that are neither NULL nor '' joined by sep, in the order of the
\* rows; NULL when there is none.
GroupConcat(values, sep) ==
    With(SelectSeq(values, LAMBDA v : v # Null /\ v # <<>>), LAMBDA kept :
         IF kept = <<>> THEN Null ELSE Join(kept, sep))

\* The row the query returns for an issue with these gcd_story rows.
IssueStoryColumns(stories) ==
    [story_titles |-> GroupConcat([i \in DOMAIN stories |-> stories[i].title], <<"\n">>),
     genres |-> GroupConcat([i \in DOMAIN stories |-> stories[i].genre], <<";">>),
     synopses |-> GroupConcat([i \in DOMAIN stories |-> stories[i].synopsis],
                              <<"\n", "\n">>)]

Whitespace == {" ", "\t", "\n", "\r"}

\* str.strip()
RECURSIVE Strip(_)
Strip(s) ==
    IF s = <<>> THEN s
    ELSE IF Head(s) \in Whitespace THEN Strip(Tail(s))
    ELSE IF s[Len(s)] \in Whitespace THEN Strip(SubSeq(s, 1, Len(s) - 1))
    ELSE s

UpperChar(ch) ==
    CASE ch = "x" -> "X" [] ch = "y" -> "Y" [] ch = "z" -> "Z" [] OTHER -> ch

LowerChar(ch) ==
    CASE ch = "X" -> "x" [] ch = "Y" -> "y" [] ch = "Z" -> "z" [] OTHER -> ch

\* str.capitalize(): the first character in upper case, the rest in lower case
Capitalize(s) ==
    [i \in DOMAIN s |-> IF i = 1 THEN UpperChar(s[i]) ELSE LowerChar(s[i])]

\* [genre.strip().capitalize() for genre in row_dict.get("genres", "").split(";")]
GenreList(genres) ==
    With(Split(genres, <<";">>), LAMBDA pieces :
         [i \in DOMAIN pieces |-> Capitalize(Strip(pieces[i]))])

\* _format_gcd_issue(row, True): the lists made of the story columns
FormatGcdIssueStories(row) ==
    [story_titles |-> IF row.story_titles # Null
                          THEN Split(row.story_titles, <<"\n">>) ELSE <<>>,
     synopses |-> IF row.synopses # Null
                      THEN Split(row.synopses, <<"\n", "\n">>) ELSE <<>>,
     genres |-> IF row.genres # Null /\ row.genres # <<>>
                    THEN GenreList(row.genres) ELSE <<>>]

\* The gcd_story rows of an issue: a title, a genre field (one genre or several
\* separated by "; ") and a synopsis (one paragraph or two), each of which
\* may be NULL or ''.
MaxStories == 3
StoryTitles == {Null, <<>>, <<"A">>, <<"B">>}
StoryGenres == {Null, <<"x">>, <<"y", ";", " ", "z">>}
StorySynopses == {<<>>, <<"s">>, <<"p", "\n", "\n", "q">>}
StoryRows == [title : StoryTitles, genre : StoryGenres, synopsis : StorySynopses]
StoryLists == UNION { [1..n -> StoryRows] : n \in 0..MaxStories }

\* the function keeps no state: one application shows all it does
AssembleIssue ==
    /\ mapped.op = "init"
    /\ \E stories \in StoryLists :
          mapped' = [op |-> "assemble", stories |-> stories,
                     issue |-> FormatGcdIssueStories(IssueStoryColumns(stories))]
    /\ UNCHANGED <<db_file, download_gui_covers, download_tag_covers,
                   nn_is_issue_one, has_issue_id_type_id_index, has_fts5,
                   has_fts5_checked, db_index, db_fts, index_creates, engine_fts5,
                   series_cache, issue_cache, calls, last>>

NextAssemble == AssembleIssue
SpecAssemble == Init /\ [][NextAssemble]_vars

(***************************************************************************)
(* Properties.  last is the record of the call that has just ended; its    *)
(* pre field is the cache entry of the requested id when the call began.   *)
(***************************************************************************)
\* The first issue of a series row, and the cover the site has for it.
FirstIssueCover(series_id) ==
    LET row == CHOOSE r \in SeriesRows : r.id = series_id IN
    IF row.first_issue_id = None THEN "" ELSE SiteCover(row.first_issue_id)

\* C1: fetch_series of a series with no cache entry does database work and, when
\* it returns, has written the entry; with a complete entry and the cover policy
\* off, or on and the entry's cover already downloaded, it returns the cached
\* payload and issues no query; with the policy on and the cached cover not
\* downloaded it goes back to the database, fetches the cover and overwrites
\* the entry.
C1_SeriesCacheBehaviour ==
    last.op = "fetch_series" =>
        LET pre == last.pre
            now == series_cache[last.arg]
            fresh == pre.present /\ pre.complete
                     /\ (~download_gui_covers \/ pre.data.cover_downloaded)
            stale == pre.present /\ download_gui_covers /\ ~pre.data.cover_downloaded
        IN  /\ fresh => /\ last.err = NoErr
                        /\ last.nq = 0 /\ last.conns = 0 /\ last.net = 0
                        /\ last.result = ComicSeries(pre.data)
                        /\ now = pre
            /\ ~fresh => /\ last.conns >= 1
                         /\ db_file = "file" => last.nq >= 1
            /\ (~fresh /\ last.err = NoErr) =>
                        /\ now.present /\ now.complete
                        /\ last.cwrites = 1
                        /\ now.data.cover_downloaded = download_gui_covers
                        /\ last.result = ComicSeries(now.data)
            /\ (stale /\ last.err = NoErr) =>
                        /\ now.data.cover_downloaded
                        /\ now.data.image = FirstIssueCover(last.arg)
                        /\ last.result.image_url = FirstIssueCover(last.arg)

\* A fetch that found the entry written with the policy off, under the policy
\* on, and replaced it with one that holds the cover.
C1_Witness ==
    /\ last.op = "fetch_series"
    /\ last.pre.present /\ ~last.pre.data.cover_downloaded
    /\ download_gui_covers
    /\ last.err = NoErr /\ last.nq >= 1 /\ last.net = 1
    /\ series_cache[last.arg].data.cover_downloaded
    /\ series_cache[last.arg].data.image # ""

\* C2: in fetch_comic_data by issue id, a complete cache entry of the issue is
\* returned as it is, with no query and no request, unless the cover policy is
\* on and the entry's covers_downloaded is false; then the issue is resolved
\* again, its covers are fetched and the entry is overwritten with the flag
\* true, so that the entry is a hit under the same policy afterwards.
C2_IssueCacheBehaviour ==
    (last.op = "fetch_comic_data" /\ last.arg.issue_id # None /\ last.issue_step.done) =>
        LET pre == last.pre
            now == issue_cache[last.arg.issue_id]
            step == last.issue_step
            fresh == pre.present /\ pre.complete
                     /\ (~download_gui_covers \/ pre.data.covers_downloaded)
            stale == pre.present /\ pre.complete
                     /\ download_gui_covers /\ ~pre.data.covers_downloaded
        IN  /\ fresh => /\ step.ok
                        /\ step.nq = 0 /\ step.conns = 0 /\ step.net = 0
                        /\ now = pre
                        /\ last.err = NoErr =>
                              /\ last.result.issue_id = pre.data.id
                              /\ last.result._cover_image = pre.data.image
                              /\ last.result._alternate_images = pre.data.alt_image_urls
            /\ (pre.present /\ ~fresh) => stale
            /\ stale => step.conns >= 1
            /\ (stale /\ step.ok) =>
                        /\ step.nq >= 1 /\ step.net = 1
                        /\ now.present /\ now.complete
                        /\ now.data.covers_downloaded
                        /\ now.data.image = SiteCover(last.arg.issue_id)
                        /\ now.data.alt_image_urls = SiteVariants(last.arg.issue_id)

\* An issue whose entry was written with the policy off, resolved again under
\* the policy on.
C2_Witness ==
    /\ last.op = "fetch_comic_data" /\ last.arg.issue_id # None
    /\ last.pre.present /\ ~last.pre.data.covers_downloaded
    /\ download_gui_covers
    /\ last.err = NoErr
    /\ last.issue_step.net = 1
    /\ issue_cache[last.arg.issue_id].data.covers_downloaded

Called == last.op \notin {"init", "parse_settings"}
IssueRowOf(issue_id) == CHOOSE r \in IssueRows : r.id = issue_id

\* C3: every public call made while db_file is not a file fails with the
\* configuration error (sub-code 3), before any connection is attempted and
\* before the cache is read.
C3_ConfigurationErrorFirst ==
    (Called /\ db_file # "file") =>
        /\ last.err = TalkerDataError(3)
        /\ last.conns = 0
        /\ last.creads = 0

\* The calls that may fetch covers from the site.
CoverOps == {"fetch_series", "fetch_comic_data", "fetch_issues_by_series_issue_num_and_year"}

\* C4, as claimed: a failed cover request never aborts fetch_series,
\* fetch_comic_data or fetch_issues_by_series_issue_num_and_year; the call
\* still returns its record.
C4_NetworkFailureKeepsRecord ==
    (last.op \in CoverOps /\ last.net_failed) => last.err = NoErr

\* C4, amended: a failed cover request (timeout or transport error) aborts the
\* call: it raises TalkerNetworkError (sub-code 4 for a timeout, 0 otherwise)
\* and returns no record; a call that returns made no request that failed, and
\* fetch_series returns an empty image without error only when the series has
\* no first issue or the site holds no cover for it.
C4_NetworkFailureAborts ==
    /\ (last.op \in CoverOps /\ last.net_failed) =>
          /\ last.err.type = "TalkerNetworkError"
          /\ last.err.code \in {0, 4}
          /\ last.result = None
    /\ (last.op = "fetch_series" /\ last.err = NoErr /\ last.net >= 1) =>
          last.result.image_url = FirstIssueCover(last.arg)

C4_Witness ==
    /\ last.op = "fetch_issues_by_series_issue_num_and_year"
    /\ download_tag_covers
    /\ last.net_failed
    /\ last.err = TalkerNetworkError(4)
    /\ last.nq >= 1

C6_TwoErrorTypes ==
    Called =>
        /\ last.fault_hit = "data" => last.err.type = "TalkerDataError"
        /\ last.fault_hit = "other" => last.err.type \notin {"none", "TalkerDataError"}

\* C6, amended: every database fault reaches the caller as TalkerDataError; a
\* malformed-input fault (sqlite3.DataError) has sub-code 1 and every other
\* fault sub-code 0, except that the compile-options query of the full-text
\* probe reports both with sub-code 0.
C6_OneTypeTwoSubCodes ==
    (Called /\ last.fault_hit # "none") =>
        LET probe == /\ last.op = "search_for_series"
                     /\ last.nq = 1 /\ ~has_fts5_checked
        IN  /\ last.err.type = "TalkerDataError"
            /\ last.err.code = IF last.fault_hit = "data" /\ ~probe THEN 1 ELSE 0

C6_Witness ==
    /\ last.op = "search_for_series"
    /\ last.fault_hit = "data"
    /\ last.nq >= 2
    /\ last.err = TalkerDataError(1)

\* C7: a search that is not literal uses the full-text strategy whenever the
\* engine has full-text support, the first search on a file without the fts
\* table included, and the LIKE strategy only without that support; a literal
\* search uses equality.
C7_FullTextWhenSupported ==
    (last.op = "search_for_series" /\ last.err = NoErr) =>
        last.strategy = IF last.arg.literal THEN "literal"
                        ELSE IF engine_fts5 THEN "fts" ELSE "like"

\* C8, as claimed: with download_gui_covers on every summary search_for_series
\* returns carries the cover of the series' first issue, and with it off none
\* carries an image.
C8_SearchAttachesCover ==
    (last.op = "search_for_series" /\ last.err = NoErr) =>
        \A i \in DOMAIN last.result :
            last.result[i].image_url =
                IF download_gui_covers THEN FirstIssueCover(last.result[i].id) ELSE ""

\* C8, amended: search_for_series makes no request to the site and every
\* summary it returns has an empty image, with the policy on as with it off.
C8_SearchNeverAttachesCover ==
    last.op = "search_for_series" =>
        /\ last.net = 0
        /\ last.err = NoErr =>
              \A i \in DOMAIN last.result : last.result[i].image_url = ""

C8_Witness ==
    /\ last.op = "search_for_series"
    /\ download_gui_covers
    /\ last.err = NoErr
    /\ \E i \in DOMAIN last.result :
          /\ FirstIssueCover(last.result[i].id) # ""
          /\ last.result[i].image_url = ""

\* C9: fetch_comic_data by an issue id that has no row and no cache entry never
\* returns a record; it fails, and with the database in place and no database
\* fault the failure is the not-found error raised after the lookup.
C9_AbsentIssueNotFound ==
    (/\ last.op = "fetch_comic_data"
     /\ last.arg.issue_id # None
     /\ ~\E r \in IssueRows : r.id = last.arg.issue_id
     /\ ~last.pre.present) =>
        /\ last.err # NoErr
        /\ last.result = None
        /\ ~issue_cache[last.arg.issue_id].present
        /\ (db_file = "file" /\ last.fault_hit = "none") =>
              /\ last.err = TalkerDataError(3)
              /\ last.issue_step.nq >= 1

C9_Witness ==
    /\ last.op = "fetch_comic_data"
    /\ last.arg.issue_id = "99"
    /\ db_file = "file"
    /\ last.issue_step.done /\ last.issue_step.nq >= 1
    /\ last.err = TalkerDataError(3)

\* C10: fetch_issues_in_series returns one record per distinct issue number of
\* the series, and for a series without issue rows the list of exactly one
\* empty GenericMetadata; the lack of issues is no error.
C10_IssuesInSeries ==
    last.op = "fetch_issues_in_series" =>
        LET rows == {r \in IssueRows : r.series_id = last.arg}
            numbers == {r.number : r \in rows}
            res == last.result
        IN  /\ last.err = NoErr =>
                  IF rows = {} THEN res = <<GenericMetadata>>
                  ELSE /\ Len(res) = Cardinality(numbers)
                       /\ {IssueRowOf(res[i].issue_id).number : i \in DOMAIN res} = numbers
                       /\ \A i \in DOMAIN res :
                             /\ IssueRowOf(res[i].issue_id).series_id = last.arg
                             /\ res[i].series_id = last.arg
            /\ (/\ rows = {}
                /\ \E r \in SeriesRows : r.id = last.arg
                /\ db_file = "file"
                /\ last.fault_hit = "none" /\ ~last.net_failed) => last.err = NoErr

C10_Witness ==
    /\ last.op = "fetch_issues_in_series"
    /\ last.arg = "3"
    /\ last.err = NoErr
    /\ last.nq >= 1
    /\ last.result = <<GenericMetadata>>

\* C11: every connection a public call opened is closed when the call returns
\* or raises.
C11_ConnectionsClosed ==
    Called => last.closed = last.opened

\* The components of a raw price, and the first of them that ends with the
\* configured currency, case folded.
FirstMatchingPrice(raw_price, currency) ==
    IF raw_price = Null \/ raw_price = <<>> THEN Null
    ELSE With(SelectSeq(Split(raw_price, <<";">>),
                        LAMBDA p : EndsWith(Casefold(p), Casefold(currency))),
              LAMBDA matching : IF matching = <<>> THEN Null ELSE XlateFloat(matching[1]))

\* C12: the price of the assembled record is that of the first component of the
\* raw price whose currency suffix matches the configured currency, whatever
\* components follow it, and there is no price when no component matches.
C12_FirstMatchingPrice ==
    (mapped.op = "map" /\ mapped.md.err = NoErr) =>
        mapped.md.price = FirstMatchingPrice(mapped.issue.price, mapped.self.currency)

NonEmptyTexts(texts) == \A i \in DOMAIN texts : texts[i] # <<>>

\* C13: for story titles and synopses that are non-empty texts, the description
\* (after the notes, when combine_notes puts them first) is, when there are as
\* many titles as synopses, one "<title>: <synopsis>" block per story in order,
\* each followed by the blank-line separator, and otherwise the synopses in
\* order joined by the blank-line separator, with no title in it.
C13_Description ==
    (/\ mapped.op = "map" /\ mapped.md.err = NoErr
     /\ NonEmptyTexts(mapped.issue.story_titles)
     /\ NonEmptyTexts(mapped.issue.synopses)) =>
        LET titles == mapped.issue.story_titles
            synopses == mapped.issue.synopses
            notes == IF mapped.self.combine_notes
                         THEN mapped.series.notes \o mapped.issue.issue_notes
                         ELSE <<>>
            blocks == [i \in DOMAIN titles |-> titles[i] \o <<":", " ">> \o synopses[i]]
        IN  IF Len(titles) = Len(synopses)
                THEN mapped.md.description =
                         notes \o Join(blocks, BlankLine)
                               \o (IF titles = <<>> THEN <<>> ELSE BlankLine)
                ELSE /\ mapped.md.description = notes \o Join(synopses, BlankLine)
                     /\ synopses # <<>> =>
                            Split(SubSeq(mapped.md.description, Len(notes) + 1,
                                         Len(mapped.md.description)), BlankLine) = synopses

C13_Witness ==
    /\ mapped.op = "map" /\ mapped.md.err = NoErr
    /\ ~mapped.self.combine_notes
    /\ mapped.issue.story_titles = << <<"A">>, <<"B">> >>
    /\ mapped.issue.synopses = << <<"x">>, <<"y">> >>
    /\ mapped.md.description = <<"A", ":", " ", "x">> \o BlankLine
                                   \o <<"B", ":", " ", "y">> \o BlankLine

\* C14: a literal search returns the series whose stored name equals the
\* requested name character for character, a difference of case excluded, and
\* when there is none it returns the empty list without error.
C14_LiteralSearch ==
    (last.op = "search_for_series" /\ last.arg.literal) =>
        LET equal == {r \in SeriesRows : r.name = last.arg.series_name} IN
        /\ last.err = NoErr =>
              /\ \A i \in DOMAIN last.result : last.result[i].name = last.arg.series_name
              /\ {last.result[i].id : i \in DOMAIN last.result} = {r.id : r \in equal}
              /\ Len(last.result) = Cardinality(equal)
        /\ (db_file = "file" /\ last.fault_hit = "none") => last.err = NoErr

C14_Witness ==
    /\ last.op = "search_for_series" /\ last.arg.literal
    /\ last.arg.series_name = <<"a", "b">>
    /\ last.nq >= 1
    /\ last.err = NoErr
    /\ last.result = <<>>

\* C15: in fetch_issues_by_series_issue_num_and_year with a year, an issue of
\* the requested number qualifies exactly when its key-date starts with the
\* year or it has no key-date, empty or missing; with no year every issue of
\* the requested number qualifies.  (The numbers that have a qualifying issue
\* are the numbers returned, one record each, and the record is a qualifying
\* issue's.)
C15_KeyDateFilter ==
    (last.op = "fetch_issues_by_series_issue_num_and_year" /\ last.err = NoErr) =>
        LET a == last.arg
            res == last.result
            wanted == IF a.issue_number = "1" /\ nn_is_issue_one
                          THEN {"1", "[nn]"} ELSE {a.issue_number}
            Qualifies(r) ==
                \/ a.year = None
                \/ r.key_date \in {<<>>, Null}
                \/ r.key_date[1] = a.year
            expected == { <<r.series_id, r.number>> :
                            r \in {x \in IssueRows : /\ x.series_id \in Range(a.series_id_list)
                                                     /\ x.number \in wanted
                                                     /\ Qualifies(x)} }
        IN  /\ \A i \in DOMAIN res : Qualifies(IssueRowOf(res[i].issue_id))
            /\ { <<IssueRowOf(res[i].issue_id).series_id, IssueRowOf(res[i].issue_id).number>> :
                    i \in DOMAIN res } = expected

\* C16: when the engine has no full-text support, a search that is not literal
\* returns every series whose name contains the requested words in order, the
\* case of the letters ignored, wherever in the name they occur.
C16_ContainsMatch ==
    (last.op = "search_for_series" /\ last.err = NoErr
        /\ ~last.arg.literal /\ ~engine_fts5) =>
        { last.result[i].id : i \in DOMAIN last.result }
            = { r.id : r \in { x \in SeriesRows :
                    LikeMatch(<<"%">> \o LikePattern(last.arg.series_name), x.name) } }

\* C17, as claimed: over any sequence of calls the CREATE INDEX statement is
\* executed at most once on the database, and whenever the flag
\* has_issue_id_type_id_index is true the index exists in the file.
C17_CreateExecutedOnce ==
    /\ index_creates <= 1
    /\ has_issue_id_type_id_index => db_index

\* C17, amended: whenever the flag has_issue_id_type_id_index is true the index
\* exists in the file; a call executes CREATE INDEX at most once, and only on
\* a file that has no index; the statement that succeeds leaves the index in
\* the file for good, so it succeeds at most once per database, while one
\* that fails leaves the flag false and the next call executes it again.
C17_IndexIdempotent ==
    /\ [](has_issue_id_type_id_index => db_index)
    /\ [][/\ db_index => db_index'
          /\ calls' = calls + 1 =>
                /\ index_creates' - index_creates \in {0, 1}
                /\ index_creates' > index_creates => ~db_index
                /\ last'.created_index = 1 <=> (~db_index /\ db_index')
                /\ last'.created_index = 1 =>
                      (index_creates' > index_creates /\ has_issue_id_type_id_index')
                /\ (index_creates' > index_creates /\ last'.created_index = 0) =>
                      (last'.err # NoErr /\ ~has_issue_id_type_id_index')]_vars

\* A call has executed CREATE INDEX a second time, the first having failed,
\* and the index is there and the flag set.
C17_Witness ==
    /\ Called
    /\ index_creates = 2
    /\ last.created_index = 1
    /\ has_issue_id_type_id_index
    /\ db_index

\* C18: after a search_for_series that raised nothing, and so after
\* check_db_fts5 has returned without error, has_fts5_checked is true and
\* has_fts5 is true exactly when the engine has full-text support and the
\* table fts exists in the file; without that support the flag stays false.
C18_ProbeDecided ==
    (last.op = "search_for_series" /\ last.err = NoErr) =>
        /\ has_fts5_checked
        /\ has_fts5 <=> (engine_fts5 /\ db_fts # "absent")

\* The texts of a list that are neither NULL nor empty, in the list's order.
PresentTexts(texts) == SelectSeq(texts, LAMBDA t : t # Null /\ t # <<>>)

\* The genres of the genre fields, each field split at its semicolons.
RECURSIVE GenresOf(_)
GenresOf(fields) ==
    IF fields = <<>> THEN <<>>
    ELSE GenreList(Head(fields)) \o GenresOf(Tail(fields))

\* C19: the story-title list and the synopsis list of the assembled issue are,
\* in story order, exactly the non-empty titles and the non-empty synopses of
\* the issue's stories, one element per non-empty field, and the genre list is
\* the semicolon-split, trimmed and capitalized non-empty genres in that order.
C19_GroupedRoundTrip ==
    mapped.op = "assemble" =>
        /\ mapped.issue.story_titles
              = PresentTexts([i \in DOMAIN mapped.stories |-> mapped.stories[i].title])
        /\ mapped.issue.synopses
              = PresentTexts([i \in DOMAIN mapped.stories |-> mapped.stories[i].synopsis])
        /\ mapped.issue.genres
              = GenresOf(PresentTexts([i \in DOMAIN mapped.stories |-> mapped.stories[i].genre]))

\* C20: _map_comic_issue_to_metadata raises nothing whichever of the optional
\* fields (series notes, issue notes, price, format, story titles, synopses)
\* are None or empty, with combine_notes on as with it off, and the record it
\* returns has no price for an issue without price and no format for a series
\* without format.
C20_PartialDataNeverFails ==
    mapped.op = "map" =>
        /\ mapped.md.err = NoErr
        /\ mapped.issue.price \in {Null, <<>>} => mapped.md.price = Null
        /\ mapped.series.format \in {Null, <<>>} => mapped.md.format = None

\* C21: fetch_comic_data called with a series id and an issue number, and no
\* issue id, returns only an issue of the requested series, also when
\* nn_is_issue_one is on and the requested number is "1".
C21_IssueOfRequestedSeries ==
    (/\ last.op = "fetch_comic_data"
     /\ last.arg.issue_id = None
     /\ last.arg.series_id # None /\ last.arg.issue_number # ""
     /\ last.err = NoErr
     /\ last.result.issue_id # None) =>
        /\ IssueRowOf(last.result.issue_id).series_id = last.arg.series_id
        /\ last.result.series_id = last.arg.series_id

\* C22: fetch_comic_data called with a series id and an issue number that no
\* issue row matches raises nothing and returns the empty GenericMetadata, and
\* called with neither an issue id nor a series id and number it returns the
\* empty GenericMetadata without a query.
C22_NoRowPlaceholder ==
    (/\ last.op = "fetch_comic_data"
     /\ last.arg.issue_id = None
     /\ db_file = "file"
     /\ last.fault_hit = "none") =>
        /\ (last.arg.series_id = None \/ last.arg.issue_number = "") =>
              /\ last.err = NoErr
              /\ last.result = GenericMetadata
              /\ last.nq = 0 /\ last.conns = 0
        /\ (/\ last.arg.series_id # None /\ last.arg.issue_number # ""
            /\ ~\E r \in IssueRows :
                  /\ r.series_id = last.arg.series_id
                  /\ r.number \in (IF nn_is_issue_one /\ last.arg.issue_number = "1"
                                      THEN {"1", "[nn]"} ELSE {last.arg.issue_number})) =>
              /\ last.err = NoErr
              /\ last.result = GenericMetadata

\* The call has resolved an issue by its id and the resolution of the issue
\* itself (_fetch_issue_by_issue_id) has not completed.
IssueResolutionFailed ==
    /\ last.op = "fetch_comic_data"
    /\ last.arg.issue_id # None
    /\ (last.issue_step.done => ~last.issue_step.ok)

\* C23, as claimed: whenever fetch_series or fetch_comic_data by issue id ends
\* in an error, the cache entry of that id is the one that was there before
\* the call, and every entry in the cache is marked complete.
C23_FailedCallKeepsCache ==
    /\ (last.op = "fetch_series" /\ last.err # NoErr) =>
            series_cache[last.arg] = last.pre
    /\ (last.op = "fetch_comic_data" /\ last.arg.issue_id # None /\ last.err # NoErr) =>
            issue_cache[last.arg.issue_id] = last.pre
    /\ \A s \in SeriesIds : series_cache[s].present => series_cache[s].complete
    /\ \A i \in IssueIds : issue_cache[i].present => issue_cache[i].complete

\* C23, amended: a resolution of a record that fails (row not found, database
\* fault, failed cover request) leaves the cache entry of that record as it
\* was: fetch_series that ends in an error keeps the series' entry, and
\* fetch_comic_data by issue id whose resolution of the issue fails keeps the
\* issue's entry.  Every entry in the cache is marked complete and holds the
\* record of a row of its own id.  (The entry of an issue that was resolved
\* stays written when the call fails later, in the resolution of the series.)
C23_FailedResolutionKeepsCache ==
    /\ (last.op = "fetch_series" /\ last.err # NoErr) =>
            series_cache[last.arg] = last.pre
    /\ IssueResolutionFailed =>
            /\ last.err # NoErr
            /\ issue_cache[last.arg.issue_id] = last.pre
    /\ \A s \in SeriesIds :
          series_cache[s].present =>
              /\ series_cache[s].complete
              /\ series_cache[s].data.id = s
              /\ \E r \in SeriesRows : r.id = s
    /\ \A i \in IssueIds :
          issue_cache[i].present =>
              /\ issue_cache[i].complete
              /\ issue_cache[i].data.id = i
              /\ \E r \in IssueRows : r.id = i

\* An issue whose entry was written with the cover policy off is resolved
\* again under the policy on, the cover request fails, and the entry is the
\* one written before.
C23_Witness ==
    /\ IssueResolutionFailed
    /\ last.issue_step.done
    /\ last.net_failed
    /\ last.err # NoErr
    /\ last.pre.present
    /\ issue_cache[last.arg.issue_id] = last.pre
====
